---- MODULE Spec2Model ----
(***************************************************************************)
(* DocQuery AI: the Streamlit front end (frontendApp.py) and the FastAPI   *)
(* orchestrator (orchestrator.py) over one Qdrant collection.              *)
(*                                                                         *)
(* Strings that the code slices, strips or joins (document text, chunk     *)
(* text, filenames, the challenge context) are sequences of one-character  *)
(* strings.  The embedder and the generator are external services: a       *)
(* search returns any ranking of the stored points, the generator's output *)
(* is an uninterpreted term of its prompt, and either may raise.           *)
(*                                                                         *)
(* Spec          : one browser session driving the orchestrator, with a    *)
(*                 second client able to post /new-session/ at any moment. *)
(* SpecApi       : the orchestrator's endpoints called directly.           *)
(* SpecChallenge : /challenge/ over collections of several points.         *)
(***************************************************************************)
EXTENDS Integers, Sequences, FiniteSets, TLC

VARIABLES
    CHUNK_SIZE_CHARS,   \* frontendApp.py:9, fixed at start-up
    points,             \* the points of QDRANT_COLLECTION_NAME
    nextId,             \* number of uuid4 ids handed out so far (ids are never reused)
    processed_files,    \* st.session_state.processed_files
    upload,             \* position of the front end inside the upload loop
    resp,               \* what the last completed operation delivered
    fresh,              \* history: a new-session succeeded and no upsert succeeded since
    epochStart          \* history: value of nextId when the collection was last recreated

vars == <<CHUNK_SIZE_CHARS, points, nextId, processed_files, upload, resp, fresh, epochStart>>

(***************************************************************************)
(* Bounds and input sets                                                   *)
(***************************************************************************)
MaxChunkSize == 2      \* CHUNK_SIZE_CHARS ranges over 1..MaxChunkSize
MaxTextLen == 3        \* longest extracted document text
MaxPoints == 2         \* upserts that succeed in one behaviour
MaxIndex == 1          \* largest chunk_index a direct API client sends

SampleText == <<" ", "a", "b", "c", "d", "e">>

\* Extracted texts: the prefixes of SampleText, the empty text included.
Texts == {SubSeq(SampleText, 1, n) : n \in 0..MaxTextLen}

\* Names of uploaded files; one carries trailing whitespace.
FileNames == {<<"a">>, <<"b", " ">>, <<"c">>}

\* Chunk texts a direct API client sends.
ApiChunks == {<<" ">>, <<"a">>}

Queries == {"q"}

Min(a, b) == IF a < b THEN a ELSE b

(***************************************************************************)
(* Python string and list primitives                                       *)
(***************************************************************************)
Whitespace == {" ", "\n", "\t"}

RECURSIVE lstrip(_)
lstrip(s) ==
    IF s # <<>> /\ Head(s) \in Whitespace THEN lstrip(Tail(s)) ELSE s

RECURSIVE rstrip(_)
rstrip(s) ==
    IF s # <<>> /\ s[Len(s)] \in Whitespace THEN rstrip(SubSeq(s, 1, Len(s) - 1)) ELSE s

\* str.strip()
strip(s) == rstrip(lstrip(s))

\* s[i:j] for 0 <= i <= j
Slice(s, i, j) == SubSeq(s, i + 1, Min(j, Len(s)))

\* range(start, stop, step) as a sequence
RECURSIVE range(_, _, _)
range(start, stop, step) ==
    IF start >= stop THEN <<>> ELSE <<start>> \o range(start + step, stop, step)

\* sep.join(parts)
RECURSIVE join(_, _)
join(sep, parts) ==
    IF parts = <<>> THEN <<>>
    ELSE IF Len(parts) = 1 THEN parts[1]
    ELSE parts[1] \o sep \o join(sep, Tail(parts))

\* Injective sequences of length k over the set S: the orders in which
\* Qdrant can hand back k of the points in S.
Rankings(S, k) ==
    {s \in [1..k -> S] : \A i, j \in 1..k : i # j => s[i] # s[j]}

(***************************************************************************)
(* frontendApp.py : chunking                                               *)
(***************************************************************************)
\* chunks with the stride one larger than the slice: a character is lost
\* between consecutive slices
chunks_stride(text, size) ==
    LET starts == range(0, Len(text), size + 1)
    IN  [k \in DOMAIN starts |-> Slice(text, starts[k], starts[k] + size)]

\* [text[i:i + CHUNK_SIZE_CHARS] for i in range(0, len(text), CHUNK_SIZE_CHARS)]
chunks(text, size) ==
    LET starts == range(0, Len(text), size)
    IN  [k \in DOMAIN starts |-> Slice(text, starts[k], starts[k] + size)]

\* {"chunk": chunk, "filename": uploaded_file.name, "chunk_index": i}
payload(chunk, name, i) == [chunk |-> chunk, filename |-> name, chunk_index |-> i]

(***************************************************************************)
(* orchestrator.py : store mutations                                       *)
(***************************************************************************)
\* The point upload_text_chunk upserts for a TextChunk item.
PointStruct(id, item) ==
    [id |-> id,
     payload |-> [text |-> item.chunk,
                  filename |-> strip(item.filename),
                  chunk_index |-> item.chunk_index]]

\* Value of a payload under a dotted key path.  Every field of the payload
\* that upload_text_chunk writes is a scalar, so only a one-segment path
\* naming one of its fields resolves.
FieldValue(pl, path) ==
    IF Len(path) = 1 /\ path[1] \in DOMAIN pl
    THEN [present |-> TRUE, value |-> pl[path[1]]]
    ELSE [present |-> FALSE]

\* key="payload.filename": the field "filename" nested under a payload field "payload"
DeleteKey == <<"payload", "filename">>

\* FieldCondition(key=..., match=MatchValue(value=...)) on one point
FieldCondition(point, path, wanted) ==
    LET v == FieldValue(point.payload, path)
    IN  v.present /\ v.value = wanted

\* initialize_collection that creates the index but keeps the old points
initialize_collection_keep ==
    /\ points' = points
    /\ epochStart' = nextId

\* initialize_collection(): recreate_collection, then create_payload_index
initialize_collection ==
    /\ points' = {}
    /\ epochStart' = nextId

\* POST /new-session/ answering with HTTP status `status`
new_session(status) ==
    /\ nextId' = nextId
    /\ \/ /\ status = 200
          /\ initialize_collection
          /\ fresh' = TRUE
       \/ /\ status = 500                 \* recreate_collection raised
          /\ UNCHANGED <<points, epochStart, fresh>>
       \/ /\ status = 500                 \* create_payload_index raised
          /\ initialize_collection
          /\ fresh' = fresh

\* POST /upload-chunk/ answering with HTTP status `status`
upload_text_chunk(item, status) ==
    \/ /\ status = 200
       /\ nextId < MaxPoints             \* model bound; beyond it only the 500 reply is left
       /\ points' = points \cup {PointStruct(nextId, item)}
       /\ nextId' = nextId + 1
       /\ fresh' = FALSE
       /\ UNCHANGED epochStart
    \/ /\ status = 500                    \* encode or upsert raised
       /\ UNCHANGED <<points, nextId, fresh, epochStart>>

\* POST /delete-document/ answering with HTTP status `status`
delete_document(filename, status) ==
    /\ UNCHANGED <<nextId, fresh, epochStart>>
    /\ \/ /\ status = 200
          /\ points' = {p \in points : ~FieldCondition(p, DeleteKey, filename)}
       \/ /\ status = 500                 \* delete raised
          /\ UNCHANGED points

(***************************************************************************)
(* frontendApp.py : the session script                                     *)
(***************************************************************************)
Idle == [active |-> FALSE]

NoResp == [op |-> "none"]

\* No reply is waiting to be read: a caller reads the reply to one request
\* before the next request is made.
Ready == resp = NoResp

\* The caller takes the reply.
Deliver ==
    /\ ~Ready
    /\ resp' = NoResp
    /\ UNCHANGED <<CHUNK_SIZE_CHARS, points, nextId, processed_files, upload, fresh, epochStart>>

Range(s) == {s[i] : i \in DOMAIN s}

\* list.remove(x): drops the first occurrence
RECURSIVE remove(_, _)
remove(s, x) ==
    IF s = <<>> THEN <<>>
    ELSE IF Head(s) = x THEN Tail(s)
    ELSE <<Head(s)>> \o remove(Tail(s), x)

\* "Clear Database and Start New": the status of the reply is not looked at
ClickNewSession ==
    /\ Ready
    /\ ~upload.active
    /\ \/ /\ \E status \in {200, 500} : new_session(status)
          /\ processed_files' = <<>>
          /\ resp' = [op |-> "click_new_session", outcome |-> "cleared"]
       \/ /\ UNCHANGED <<points, nextId, fresh, epochStart, processed_files>>
          /\ resp' = [op |-> "click_new_session", outcome |-> "ConnectionError"]
    /\ UNCHANGED <<CHUNK_SIZE_CHARS, upload>>

\* One pass of the loop over new_files_to_process up to the chunk loop
BeginUpload ==
    /\ Ready
    /\ ~upload.active
    /\ \E name \in FileNames, text \in Texts :
          /\ name \notin Range(processed_files)
          /\ IF text # <<>>
             THEN /\ upload' = [active |-> TRUE, name |-> name, text |-> text,
                                chunks |-> chunks(text, CHUNK_SIZE_CHARS),
                                sent |-> <<>>, ok |-> 0, ids |-> {}, raced |-> FALSE]
                  /\ resp' = NoResp
             ELSE /\ upload' = Idle
                  /\ resp' = [op |-> "ingest", name |-> name, registered |-> FALSE,
                              outcome |-> "Could not extract text"]
    /\ UNCHANGED <<CHUNK_SIZE_CHARS, points, nextId, fresh, epochStart, processed_files>>

\* One pass of "for i, chunk in enumerate(chunks)"
PostChunk ==
    /\ Ready
    /\ upload.active
    /\ Len(upload.sent) < Len(upload.chunks)
    /\ LET i == Len(upload.sent)
           item == payload(upload.chunks[i + 1], upload.name, i)
       IN  \/ /\ \E status \in {200, 500} :
                    /\ upload_text_chunk(item, status)
                    /\ upload' = [upload EXCEPT
                                    !.sent = Append(@, item),
                                    !.ok = IF status = 200 THEN @ + 1 ELSE @,
                                    !.ids = IF status = 200 THEN @ \cup {nextId} ELSE @]
              /\ resp' = NoResp
           \/ /\ UNCHANGED <<points, nextId, fresh, epochStart>>   \* requests.post raised
              /\ upload' = Idle
              /\ resp' = [op |-> "ingest", name |-> upload.name, registered |-> FALSE,
                          outcome |-> "ConnectionError"]
    /\ UNCHANGED <<CHUNK_SIZE_CHARS, processed_files>>

\* After the chunk loop: processed_files.append(uploaded_file.name)
FinishUpload ==
    /\ Ready
    /\ upload.active
    /\ Len(upload.sent) = Len(upload.chunks)
    /\ processed_files' = Append(processed_files, upload.name)
    /\ resp' = [op |-> "ingest", name |-> upload.name, registered |-> TRUE,
                outcome |-> "All new files processed!",
                text |-> upload.text, sent |-> upload.sent, ok |-> upload.ok,
                ids |-> upload.ids, raced |-> upload.raced]
    /\ upload' = Idle
    /\ UNCHANGED <<CHUNK_SIZE_CHARS, points, nextId, fresh, epochStart>>

\* The "Remove" button next to a processed file
ClickRemove ==
    /\ Ready
    /\ ~upload.active
    /\ \E name \in Range(processed_files) :
          \/ \E status \in {200, 500} :
                /\ delete_document(name, status)
                /\ processed_files' =
                      IF status = 200 THEN remove(processed_files, name) ELSE processed_files
                /\ resp' = [op |-> "remove", name |-> name, status |-> status]
          \/ /\ UNCHANGED <<points, nextId, fresh, epochStart, processed_files>>
             /\ resp' = [op |-> "remove", name |-> name, status |-> 0]
    /\ UNCHANGED <<CHUNK_SIZE_CHARS, upload>>

\* Another client posts /new-session/ while this session is anywhere in its script
OtherNewSession ==
    /\ Ready
    /\ \E status \in {200, 500} :
          /\ new_session(status)
          /\ upload' = IF upload.active /\ status = 200
                       THEN [upload EXCEPT !.raced = TRUE] ELSE upload
          /\ resp' = [op |-> "new_session", status |-> status]
    /\ UNCHANGED <<CHUNK_SIZE_CHARS, processed_files>>

Init ==
    /\ CHUNK_SIZE_CHARS \in 1..MaxChunkSize
    /\ points = {}
    /\ nextId = 0
    /\ processed_files = <<>>
    /\ upload = Idle
    /\ resp = NoResp
    /\ fresh = FALSE
    /\ epochStart = 0

Next ==
    \/ ClickNewSession
    \/ BeginUpload
    \/ PostChunk
    \/ FinishUpload
    \/ ClickRemove
    \/ OtherNewSession
    \/ Deliver

Spec == Init /\ [][Next]_vars

(***************************************************************************)
(* orchestrator.py : text values that are built but never taken apart      *)
(***************************************************************************)
\* A fixed reply text
Lit(s) == [kind |-> "literal", text |-> s]

\* model.generate_content(prompt).text: an uninterpreted term of the prompt
generate_content(prompt) == [kind |-> "generated", prompt |-> prompt]

\* f"Summary for {filename}:\n{response.text}\n"
individual_summary(filename, response_text) ==
    [kind |-> "Summary for {filename}:\n{response.text}\n",
     filename |-> filename, response_text |-> response_text]

\* raise HTTPException(status_code=..., detail=...)
HTTPException(status_code, detail) == [status_code |-> status_code, detail |-> detail]

\* "except Exception as e: raise HTTPException(status_code=500, detail=str(e))"
\* HTTPException is itself an Exception, so one raised inside the try block
\* is caught here as well.
except_Exception(e) == HTTPException(500, e)

\* What a failing collaborator raises
UpstreamError(who) == [exception |-> who]

\* Which collaborator, if any, fails during one request
Faults == {"none", "qdrant", "gemini"}

(***************************************************************************)
(* orchestrator.py : /chat/                                                *)
(***************************************************************************)
ChatLimit == 5
ChallengeLimit == 3
ScrollLimit == 10000

ord(c) ==
    CASE c = "\t" -> 9 [] c = "\n" -> 10 [] c = " " -> 32 [] c = "-" -> 45
      [] c = "a" -> 97 [] c = "b" -> 98 [] c = "c" -> 99 [] c = "d" -> 100
      [] c = "e" -> 101

\* s < t for Python strings
RECURSIVE str_lt(_, _)
str_lt(s, t) ==
    IF t = <<>> THEN FALSE
    ELSE IF s = <<>> THEN TRUE
    ELSE IF Head(s) = Head(t) THEN str_lt(Tail(s), Tail(t))
    ELSE ord(Head(s)) < ord(Head(t))

\* sorted(list(set(names)))
RECURSIVE sorted_set(_)
sorted_set(S) ==
    IF S = {} THEN <<>>
    ELSE LET m == CHOOSE x \in S : \A y \in S \ {x} : str_lt(x, y)
         IN  <<m>> \o sorted_set(S \ {m})

Delimiter == <<"\n", "-", "-", "-", "\n">>

\* The reply of chat_with_documents when the search returns search_results
\* and the collaborator named by fault raises.
chat_with_documents(query, search_results, fault) ==
    IF fault = "qdrant"
    THEN [op |-> "chat", status |-> 500, genCalls |-> 0,
          detail |-> except_Exception(UpstreamError("qdrant")).detail]
    ELSE IF search_results = <<>>
    THEN [op |-> "chat", status |-> 200, genCalls |-> 0,
          search_results |-> search_results,
          answer |-> Lit("Please upload a document first.")]
    ELSE LET context == join(Delimiter,
                             [i \in DOMAIN search_results |-> search_results[i].payload.text])
             filenames == sorted_set({search_results[i].payload.filename :
                                        i \in DOMAIN search_results})
             prompt == [kind |-> "chat", context |-> context, query |-> query]
         IN  IF fault # "gemini"
             THEN [op |-> "chat", status |-> 200, genCalls |-> 1,
                   search_results |-> search_results,
                   answer |-> generate_content(prompt), context_used |-> filenames]
             ELSE [op |-> "chat", status |-> 500, genCalls |-> 1,
                   detail |-> except_Exception(UpstreamError("gemini")).detail]

(***************************************************************************)
(* orchestrator.py : /summarize-all/                                       *)
(***************************************************************************)
\* Keys of docs in the order the scroll first meets them
RECURSIVE docs_keys(_)
docs_keys(all_points) ==
    IF all_points = <<>> THEN <<>>
    ELSE LET rest == docs_keys(SubSeq(all_points, 1, Len(all_points) - 1))
             f == all_points[Len(all_points)].payload.filename
         IN  IF f \in Range(rest) THEN rest ELSE Append(rest, f)

\* docs[filename]: the payloads of that filename in scroll order
docs_get(all_points, filename) ==
    LET mine == SelectSeq(all_points, LAMBDA p : p.payload.filename = filename)
    IN  [i \in DOMAIN mine |-> mine[i].payload]

\* sorted_chunks that leaves the chunks in scroll order
sorted_chunks_unsorted(cs) == cs

\* sorted(chunks, key=lambda c: c.get('chunk_index', 0)): a stable sort
RECURSIVE sorted_chunks(_)
sorted_chunks(cs) ==
    IF cs = <<>> THEN <<>>
    ELSE LET init == sorted_chunks(SubSeq(cs, 1, Len(cs) - 1))
             x == cs[Len(cs)]
             n == Cardinality({i \in DOMAIN init : init[i].chunk_index <= x.chunk_index})
         IN  SubSeq(init, 1, n) \o <<x>> \o SubSeq(init, n + 1, Len(init))

\* "\n".join([chunk['text'] for chunk in sorted_chunks])
full_text(cs) ==
    LET sc == sorted_chunks(cs)
    IN  join(<<"\n">>, [i \in DOMAIN sc |-> sc[i].text])

\* The prompt of the per-document call for the k-th key of docs
summary_prompt(all_points, filename) ==
    [kind |-> "Provide a concise summary of the text from '{filename}':\n\n{full_text}",
     filename |-> filename, full_text |-> full_text(docs_get(all_points, filename))]

\* the reduce test off by one: a single summary is synthesised as well
needs_synthesis_always(individual_summaries) == Len(individual_summaries) >= 1

\* "if len(individual_summaries) > 1"
needs_synthesis(individual_summaries) == Len(individual_summaries) > 1

\* The reply of summarize_all_documents when the scroll returns all_points
summarize_all_documents(all_points, fault) ==
    IF fault = "qdrant"
    THEN [op |-> "summarize_all", status |-> 500, genCalls |-> 0,
          detail |-> except_Exception(UpstreamError("qdrant")).detail]
    ELSE IF all_points = <<>>
    THEN LET e == except_Exception(HTTPException(404, "No documents found to summarize."))
         IN  [op |-> "summarize_all", status |-> e.status_code, genCalls |-> 0,
              detail |-> e.detail]
    ELSE IF fault = "gemini"
    THEN [op |-> "summarize_all", status |-> 500, genCalls |-> 1,
          detail |-> except_Exception(UpstreamError("gemini")).detail]
    ELSE LET keys == docs_keys(all_points)
             prompts == [k \in DOMAIN keys |-> summary_prompt(all_points, keys[k])]
             individual_summaries ==
                 [k \in DOMAIN keys |->
                     individual_summary(keys[k], generate_content(prompts[k]))]
             synthesis_prompt ==
                 [kind |-> "Create a single 'synthesis' summary ...",
                  all_summaries_text |-> [sep |-> "\n---\n", parts |-> individual_summaries]]
         IN  IF needs_synthesis(individual_summaries)
             THEN [op |-> "summarize_all", status |-> 200,
                   genCalls |-> Len(prompts) + 1,
                   calls |-> Append(prompts, synthesis_prompt),
                   summary |-> generate_content(synthesis_prompt),
                   source_documents |-> keys]
             ELSE [op |-> "summarize_all", status |-> 200,
                   genCalls |-> Len(prompts),
                   calls |-> prompts,
                   summary |-> individual_summaries[1],
                   source_documents |-> keys]

(***************************************************************************)
(* orchestrator.py : /challenge/                                           *)
(***************************************************************************)
\* d[key] = value on a dict kept as a sequence of <<key, value>> in insertion
\* order: an existing key keeps its place and takes the new value.
dict_set(d, key, value) ==
    IF \E i \in DOMAIN d : d[i][1] = key
    THEN [i \in DOMAIN d |-> IF d[i][1] = key THEN <<key, value>> ELSE d[i]]
    ELSE Append(d, <<key, value>>)

\* {result.id: result.payload['text'] for result in results}
RECURSIVE dict_of(_)
dict_of(results) ==
    IF results = <<>> THEN <<>>
    ELSE LET r == results[Len(results)]
         IN  dict_set(dict_of(SubSeq(results, 1, Len(results) - 1)), r.id, r.payload.text)

\* combined_context as a plain list: a chunk found by both passes appears twice
combined_context_list(supporting_results, opposing_results) ==
    LET all == supporting_results \o opposing_results
    IN  [i \in DOMAIN all |-> <<all[i].id, all[i].payload.text>>]

\* combined_context over supporting_results + opposing_results
combined_context(supporting_results, opposing_results) ==
    dict_of(supporting_results \o opposing_results)

\* The reply of challenge_statement for the two search results
challenge_statement(statement, supporting_results, opposing_results, fault) ==
    IF fault = "qdrant"
    THEN [op |-> "challenge", status |-> 500, genCalls |-> 0,
          detail |-> except_Exception(UpstreamError("qdrant")).detail]
    ELSE LET cc == combined_context(supporting_results, opposing_results)
             context_text == join(Delimiter, [i \in DOMAIN cc |-> cc[i][2]])
             prompt == [kind |-> "challenge", statement |-> statement,
                        context_text |-> context_text]
         IN  IF strip(context_text) = <<>>
             THEN [op |-> "challenge", status |-> 200, genCalls |-> 0,
                   supporting |-> supporting_results, opposing |-> opposing_results,
                   combined_context |-> cc, context_text |-> context_text,
                   answer |-> Lit("I couldn't find any information relevant to that statement in the documents.")]
             ELSE IF fault # "gemini"
             THEN [op |-> "challenge", status |-> 200, genCalls |-> 1,
                   supporting |-> supporting_results, opposing |-> opposing_results,
                   combined_context |-> cc, context_text |-> context_text,
                   answer |-> generate_content(prompt)]
             ELSE [op |-> "challenge", status |-> 500, genCalls |-> 1,
                   detail |-> except_Exception(UpstreamError("gemini")).detail]

(***************************************************************************)
(* SpecApi : the endpoints called directly                                 *)
(***************************************************************************)
TextChunks ==
    {payload(c, f, i) : c \in ApiChunks, f \in FileNames, i \in 0..MaxIndex}

FrontEndVars == <<CHUNK_SIZE_CHARS, processed_files, upload>>

ApiNewSession ==
    /\ Ready
    /\ \E status \in {200, 500} :
          /\ new_session(status)
          /\ resp' = [op |-> "new_session", status |-> status]
    /\ UNCHANGED FrontEndVars

ApiUploadChunk ==
    /\ Ready
    /\ \E item \in TextChunks, status \in {200, 500} :
          /\ upload_text_chunk(item, status)
          /\ resp' = [op |-> "upload_chunk", status |-> status]
    /\ UNCHANGED FrontEndVars

ApiDeleteDocument ==
    /\ Ready
    /\ \E filename \in FileNames \cup {strip(f) : f \in FileNames},
          status \in {200, 500} :
          /\ delete_document(filename, status)
          /\ resp' = [op |-> "delete_document", status |-> status,
                      filename |-> filename]
    /\ UNCHANGED FrontEndVars

ApiChat ==
    /\ Ready
    /\ \E query \in Queries, fault \in Faults,
          search_results \in Rankings(points, Min(ChatLimit, Cardinality(points))) :
          resp' = chat_with_documents(query, search_results, fault)
    /\ UNCHANGED <<points, nextId, fresh, epochStart>>
    /\ UNCHANGED FrontEndVars

ApiSummarizeAll ==
    /\ Ready
    /\ \E fault \in Faults,
          all_points \in Rankings(points, Min(ScrollLimit, Cardinality(points))) :
          resp' = summarize_all_documents(all_points, fault)
    /\ UNCHANGED <<points, nextId, fresh, epochStart>>
    /\ UNCHANGED FrontEndVars

NextApi ==
    \/ ApiNewSession
    \/ ApiUploadChunk
    \/ ApiDeleteDocument
    \/ ApiChat
    \/ ApiSummarizeAll
    \/ Deliver

\* The front end's chunk size plays no part in the endpoints.
InitApi == Init /\ CHUNK_SIZE_CHARS = 1

SpecApi == InitApi /\ [][NextApi]_vars

(***************************************************************************)
(* SpecChallenge : /challenge/ over a collection of up to MaxRetrievable   *)
(* points, as left by that many /upload-chunk/ calls                       *)
(***************************************************************************)
MaxRetrievable == 5

ApiChallenge ==
    /\ Ready
    /\ \E statement \in Queries, fault \in Faults,
          supporting_results \in Rankings(points, Min(ChallengeLimit, Cardinality(points))),
          opposing_results \in Rankings(points, Min(ChallengeLimit, Cardinality(points))) :
          resp' = challenge_statement(statement, supporting_results, opposing_results,
                                      fault)
    /\ UNCHANGED <<points, nextId, fresh, epochStart>>
    /\ UNCHANGED FrontEndVars

InitChallenge ==
    /\ CHUNK_SIZE_CHARS = 1
    /\ \E n \in 0..MaxRetrievable :
          /\ nextId = n
          /\ \E blank \in 0..n :      \* the first `blank` chunks are whitespace
                points = {PointStruct(i, payload(IF i < blank THEN <<" ">> ELSE <<"a">>,
                                                 <<"a">>, i)) : i \in 0..(n - 1)}
    /\ processed_files = <<>>
    /\ upload = Idle
    /\ resp = NoResp
    /\ fresh = FALSE
    /\ epochStart = 0

NextChallenge ==
    \/ ApiChallenge
    \/ Deliver

SpecChallenge == InitChallenge /\ [][NextChallenge]_vars

(***************************************************************************)
(* Properties                                                              *)
(***************************************************************************)
StoredNames == {p.payload.filename : p \in points}

\* C1 (Spec): once the Remove of a processed file f has been answered with
\* success, the collection holds no chunk of f.
C1_CascadeDelete ==
    (resp.op = "remove" /\ resp.status = 200)
        => \A p \in points : p.payload.filename # strip(resp.name)

\* C2 (SpecApi): summarize-all on a collection without points, the store
\* being reachable, is answered with status 404 and calls the generator
\* zero times.
C2_EmptyIsNotFound ==
    (resp.op = "summarize_all" /\ points = {}
        /\ resp.detail # UpstreamError("qdrant"))
        => (resp.status = 404 /\ resp.genCalls = 0)

\* C3 as stated (SpecApi): a successful summarize-all over one filename makes
\* one generator call and returns that call's output itself; over n >= 2
\* filenames it makes n + 1 calls and returns the output of the last one,
\* the synthesis.
C3_ReduceAsStated ==
    (resp.op = "summarize_all" /\ resp.status = 200)
        => LET n == Cardinality(StoredNames)
           IN  /\ resp.genCalls = Len(resp.calls)
               /\ n = 1 => /\ resp.genCalls = 1
                           /\ resp.summary = generate_content(resp.calls[1])
               /\ n >= 2 => /\ resp.genCalls = n + 1
                            /\ resp.summary = generate_content(resp.calls[n + 1])

\* C3 amended (SpecApi): a successful summarize-all over one filename f makes
\* one generator call and returns "Summary for f:\n<output>\n", the labelled
\* entry of individual_summaries; over n >= 2 filenames it makes n + 1 calls,
\* n per-document prompts and then the synthesis prompt, and returns the
\* output of the synthesis call.
C3_Reduce ==
    (resp.op = "summarize_all" /\ resp.status = 200)
        => LET n == Cardinality(StoredNames)
           IN  /\ resp.genCalls = Len(resp.calls)
               /\ \A k \in 1..n : "full_text" \in DOMAIN resp.calls[k]
               /\ n = 1 => /\ resp.genCalls = 1
                           /\ resp.summary.filename \in StoredNames
                           /\ resp.summary.response_text = generate_content(resp.calls[1])
               /\ n >= 2 => /\ resp.genCalls = n + 1
                            /\ "all_summaries_text" \in DOMAIN resp.calls[n + 1]
                            /\ resp.summary = generate_content(resp.calls[n + 1])

C3_Witness ==
    /\ resp.op = "summarize_all"
    /\ resp.status = 200
    /\ Cardinality(StoredNames) = 1
    /\ Cardinality(points) >= 2
    /\ resp.genCalls = 1

\* C4 (SpecApi): while a new-session has succeeded and no upload has since,
\* the collection is empty, and a chat in that state calls the generator
\* zero times and, when the search answers, finds nothing and replies with
\* the canned message.
C4_ResetEmptiness ==
    fresh =>
        /\ points = {}
        /\ resp.op = "chat" =>
              /\ resp.genCalls = 0
              /\ resp.status = 200 =>
                    /\ resp.search_results = <<>>
                    /\ resp.answer = Lit("Please upload a document first.")

C4_Witness ==
    /\ fresh
    /\ nextId > 0
    /\ resp.op = "chat"
    /\ resp.status = 200

\* C5 (Spec): an upload that ends with the filename registered had every one
\* of its upload-chunk posts answered with success.
C5_SuccessImpliesAllInserted ==
    (resp.op = "ingest" /\ resp.registered) => resp.ok = Len(resp.sent)

\* C6 (Spec): whenever the session is outside the upload loop, the names in
\* processed_files are exactly the filenames that have a chunk in the
\* collection.
C6_SessionStoreConsistency ==
    ~upload.active => Range(processed_files) = StoredNames

\* The texts of a set of points in ascending chunk_index order, by repeated
\* selection of the least index.
RECURSIVE AscendingTexts(_)
AscendingTexts(P) ==
    IF P = {} THEN <<>>
    ELSE LET m == CHOOSE p \in P : \A q \in P : p.payload.chunk_index <= q.payload.chunk_index
         IN  <<m.payload.text>> \o AscendingTexts(P \ {m})

PointsOf(f) == {p \in points : p.payload.filename = f}

DistinctOrdinals(P) ==
    \A p, q \in P : p # q => p.payload.chunk_index # q.payload.chunk_index

\* C7 (SpecApi): in a successful summarize-all, for every filename whose
\* stored chunks carry pairwise different ordinals, the full_text put into
\* that document's prompt is the chunk texts in ascending ordinal order,
\* joined by newlines, whatever order the scroll returned them in.
C7_OrderPreservation ==
    (resp.op = "summarize_all" /\ resp.status = 200)
        => \A k \in DOMAIN resp.source_documents :
              LET f == resp.source_documents[k]
              IN  DistinctOrdinals(PointsOf(f))
                    => /\ resp.calls[k].filename = f
                       /\ resp.calls[k].full_text = join(<<"\n">>, AscendingTexts(PointsOf(f)))

\* A document whose chunk 1 was inserted before its chunk 0 has been summarised.
C7_Witness ==
    /\ resp.op = "summarize_all"
    /\ resp.status = 200
    /\ \E p, q \in points :
          /\ p.payload.filename = q.payload.filename
          /\ p.payload.chunk_index = 0
          /\ q.payload.chunk_index = 1
          /\ q.id < p.id
          /\ p.payload.text # q.payload.text
          /\ Cardinality(PointsOf(p.payload.filename)) = 2

Ids(results) == [i \in DOMAIN results |-> results[i].id]

\* C8 (SpecChallenge): in a challenge that was answered, the merged context
\* lists the supporting results in rank order and then the opposing results
\* that are not among them, each chunk id once with that chunk's text; and
\* when the joined context is empty or only whitespace the reply is the fixed
\* message and the generator is not called.
C8_MergeDedup ==
    (resp.op = "challenge" /\ resp.status = 200)
        => LET cc == resp.combined_context
               sup == Ids(resp.supporting)
               opp == Ids(resp.opposing)
           IN  /\ [i \in DOMAIN cc |-> cc[i][1]]
                    = sup \o SelectSeq(opp, LAMBDA id : id \notin Range(sup))
               /\ \A i, j \in DOMAIN cc : i # j => cc[i][1] # cc[j][1]
               /\ \A i \in DOMAIN cc :
                     \E p \in points : p.id = cc[i][1] /\ p.payload.text = cc[i][2]
               /\ strip(resp.context_text) = <<>>
                     => /\ resp.genCalls = 0
                        /\ resp.answer = Lit("I couldn't find any information relevant to that statement in the documents.")
               /\ strip(resp.context_text) # <<>> => resp.genCalls = 1

\* The same chunk is the top result of both passes, and the opposing pass
\* also brings two chunks the supporting pass did not return.
C8_Witness ==
    /\ resp.op = "challenge"
    /\ resp.status = 200
    /\ Len(resp.supporting) = ChallengeLimit
    /\ resp.supporting[1].id = resp.opposing[1].id
    /\ Len(resp.combined_context) = Len(resp.supporting) + 2

\* parts[1] + parts[2] + ...
RECURSIVE Concat(_)
Concat(parts) ==
    IF parts = <<>> THEN <<>> ELSE Head(parts) \o Concat(Tail(parts))

\* C9 (Spec): an upload that ran to the end posted ceil(len(text) /
\* CHUNK_SIZE_CHARS) chunks whose concatenation in posting order is the text,
\* each non-empty and at most CHUNK_SIZE_CHARS long, all but the last exactly
\* that long, the i-th posted with chunk_index i (from 0) under the file's
\* name.
C9_Chunking ==
    (resp.op = "ingest" /\ resp.registered)
        => LET sent == resp.sent
               N == Len(sent)
               size == CHUNK_SIZE_CHARS
           IN  /\ N = (Len(resp.text) + size - 1) \div size
               /\ Concat([i \in 1..N |-> sent[i].chunk]) = resp.text
               /\ \A i \in 1..N :
                     /\ sent[i].chunk # <<>>
                     /\ Len(sent[i].chunk) <= size
                     /\ i < N => Len(sent[i].chunk) = size
                     /\ sent[i].chunk_index = i - 1
                     /\ sent[i].filename = resp.name

\* A text of several chunks whose last chunk is shorter has been uploaded.
C9_Witness ==
    /\ resp.op = "ingest"
    /\ resp.registered
    /\ Len(resp.sent) >= 2
    /\ Len(resp.sent[Len(resp.sent)].chunk) < CHUNK_SIZE_CHARS

\* C10 (Spec): when a new-session succeeded while an upload of two or more
\* chunks was under way and every post of that upload succeeded, then at the
\* end of the upload the collection holds none or all of the chunks the
\* upload inserted, and no point that was inserted before the collection was
\* last recreated.
C10_ResetVersusIngest ==
    (resp.op = "ingest" /\ resp.registered /\ resp.raced
        /\ Len(resp.sent) >= 2 /\ resp.ok = Len(resp.sent))
        => LET mine == {p \in points : p.id \in resp.ids}
           IN  /\ mine = {} \/ Cardinality(mine) = Len(resp.sent)
               /\ \A p \in points : p.id >= epochStart

====
